---- MODULE Spec2Model ----
(***************************************************************************)
(* Model of data/dataset.py: the Interaction class (one split of           *)
(* user-item records and its derived views) and the Dataset class (the     *)
(* loader that reads the train/valid/test files and unifies the id space). *)
(*                                                                         *)
(* A DataFrame is the sequence of its rows, a row is the tuple             *)
(* <<user, item>>.  Optional arguments (None or a value) are sets with at  *)
(* most one element.                                                       *)
(*                                                                         *)
(* Two callers are modelled: SpecDataset loads a Dataset from every        *)
(* combination of split files, SpecInteraction wraps every frame and shape *)
(* in an Interaction and calls its views in every order (the splits of a   *)
(* Dataset are such Interaction objects).                                  *)
(*                                                                         *)
(* pandas.read_csv is the external record reader: a file that exists holds *)
(* at least one well-formed row (read_csv raises on a file without rows,   *)
(* and its parse errors are outside the model).                            *)
(* Ids stay below 2^31, the numbers TLC can represent, so the np.int32     *)
(* casts never wrap inside the model; ratings are counted in integers      *)
(* (float32 is exact below 2^24).                                          *)
(***************************************************************************)
EXTENDS Integers, Sequences, FiniteSets, TLC

VARIABLES files, pc, args, exc, warned, ds, objs, ret

vars == <<files, pc, args, exc, warned, ds, objs, ret>>

(* ------------------------------ bounds --------------------------------- *)
MaxUser == 1
MaxItem == 1
MaxRows == 3
MaxDataLen == 3

(* ------------------------ module-level constants ----------------------- *)
\* column positions of a row and the enabled schema selectors
_USER == 1
_ITEM == 2
_column_dict == {"UI"}
Int32Max == 2147483647

ColumnsArgs == {"UI", "UIR"}
Splits == {"train", "valid", "test"}
Names == Splits \cup {"bare"}
Rows == (0..MaxUser) \X (0..MaxItem)

NonEmptySeqs(S, n) == UNION {[1..k -> S] : k \in 1..n}

(* ------------------------------ helpers -------------------------------- *)
\* the largest element of a non-empty set of integers (Python's max)
Max(S) == CHOOSE m \in S : \A x \in S : x <= m

\* one column of a DataFrame, as the set of its values
Column(data, c) == {data[k][c] : k \in DOMAIN data}

\* ndarray.astype(np.int32): two's-complement wrap of a non-negative int64
ToInt32(x) == IF x > Int32Max THEN x - Int32Max - Int32Max - 2 ELSE x

\* pd.DataFrame(): the frame without rows
EmptyFrame == <<>>

\* DataFrame.empty
IsEmpty(data) == Len(data) = 0

\* pd.read_csv on a file that exists: the rows of the file, in order
read_csv(file) == file.rows

\* os.path.isfile
isfile(file) == file.exists

(* --------------------------- class Interaction ------------------------- *)
\* variant of Interaction: the shape is always inferred from the rows of the
\* split, a supplied num_users or num_items is ignored
Interaction_LocalShape(data, num_users, num_items) ==
    IF data = {} \/ (\E d \in data : IsEmpty(d))
    THEN [_data |-> EmptyFrame, num_users |-> 0, num_items |-> 0,
          num_ratings |-> 0, _buffer |-> <<>>]
    ELSE LET d == CHOOSE x \in data : TRUE
         IN  [_data |-> d,
              num_users |-> Max({u + 1 : u \in Column(d, _USER)}),
              num_items |-> Max({i + 1 : i \in Column(d, _ITEM)}),
              num_ratings |-> Len(d),
              _buffer |-> <<>>]

\* variant of Interaction: a supplied shape is widened to cover the rows
Interaction_Widened(data, num_users, num_items) ==
    IF data = {} \/ (\E d \in data : IsEmpty(d))
    THEN [_data |-> EmptyFrame, num_users |-> 0, num_items |-> 0,
          num_ratings |-> 0, _buffer |-> <<>>]
    ELSE LET d == CHOOSE x \in data : TRUE
         IN  [_data |-> d,
              num_users |-> Max(num_users \cup {u + 1 : u \in Column(d, _USER)}),
              num_items |-> Max(num_items \cup {i + 1 : i \in Column(d, _ITEM)}),
              num_ratings |-> Len(d),
              _buffer |-> <<>>]

\* Interaction.__init__(data, num_users, num_items); data, num_users and
\* num_items are {} for None and {v} for the value v
Interaction(data, num_users, num_items) ==
    IF data = {} \/ (\E d \in data : IsEmpty(d))
    THEN [_data |-> EmptyFrame, num_users |-> 0, num_items |-> 0,
          num_ratings |-> 0, _buffer |-> <<>>]
    ELSE LET d == CHOOSE x \in data : TRUE
         IN  [_data |-> d,
              num_users |-> IF num_users # {} THEN CHOOSE n \in num_users : TRUE
                            ELSE Max({u + 1 : u \in Column(d, _USER)}),
              num_items |-> IF num_items # {} THEN CHOOSE n \in num_items : TRUE
                            ELSE Max({i + 1 : i \in Column(d, _ITEM)}),
              num_ratings |-> Len(d),
              _buffer |-> <<>>]

\* variant of SortedKeys: the keys in descending order
RECURSIVE SortedKeys_Descending(_)
SortedKeys_Descending(S) ==
    IF S = {} THEN <<>>
    ELSE LET m == CHOOSE x \in S : \A y \in S : x >= y
         IN  <<m>> \o SortedKeys_Descending(S \ {m})

\* the keys of a groupby in the order pandas iterates them (sort=True)
RECURSIVE SortedKeys(_)
SortedKeys(S) ==
    IF S = {} THEN <<>>
    ELSE LET m == CHOOSE x \in S : \A y \in S : x <= y
         IN  <<m>> \o SortedKeys(S \ {m})

\* the rows of one group, in the row order of the frame
GroupRows(data, user) == SelectSeq(data, LAMBDA r : r[_USER] = user)

\* DataFrame.groupby(_USER): the sequence of <<key, rows of the group>>
groupby(data) ==
    LET keys == SortedKeys(Column(data, _USER))
    IN  [k \in 1..Len(keys) |-> <<keys[k], GroupRows(data, keys[k])>>]

\* data[_ITEM].to_numpy(dtype=np.int32) of one group
GroupItems(rows) == [j \in 1..Len(rows) |-> ToInt32(rows[j][_ITEM])]

\* the message of the three soft failures
EmptyWarning == "self._data is empty."

\* Interaction.to_user_dict: an OrderedDict is the sequence of its
\* <<key, value>> entries in insertion order
to_user_dict(self) ==
    IF IsEmpty(self._data)
    THEN [self |-> self, kind |-> "None", val |-> <<>>, warn |-> {EmptyWarning}]
    ELSE LET user_grouped == groupby(self._data)
             user_dict == [k \in 1..Len(user_grouped) |->
                              <<user_grouped[k][1], GroupItems(user_grouped[k][2])>>]
         IN  [self |-> [self EXCEPT !._buffer = ("user_dict" :> user_dict)],
              kind |-> "OrderedDict", val |-> user_dict, warn |-> {}]

\* variant of SumDuplicates: a repeated coordinate overwrites the stored
\* entry instead of adding to it
RECURSIVE SumDuplicates_Overwrite(_, _, _, _)
SumDuplicates_Overwrite(users, items, ratings, k) ==
    IF k = 0 THEN <<>>
    ELSE LET m == SumDuplicates_Overwrite(users, items, ratings, k - 1)
             c == <<users[k], items[k]>>
         IN  IF c \in DOMAIN m THEN [m EXCEPT ![c] = ratings[k]]
             ELSE m @@ (c :> ratings[k])

\* duplicate coordinates of the COO triplets are summed into one stored entry
RECURSIVE SumDuplicates(_, _, _, _)
SumDuplicates(users, items, ratings, k) ==
    IF k = 0 THEN <<>>
    ELSE LET m == SumDuplicates(users, items, ratings, k - 1)
             c == <<users[k], items[k]>>
         IN  IF c \in DOMAIN m THEN [m EXCEPT ![c] = @ + ratings[k]]
             ELSE m @@ (c :> ratings[k])

\* sp.csr_matrix((ratings, (users, items)), shape): scipy rejects an index
\* outside the shape with a ValueError
csr_matrix(ratings, users, items, shape) ==
    IF \E k \in DOMAIN users : users[k] >= shape[1] \/ items[k] >= shape[2]
    THEN [kind |-> "raise", val |-> "ValueError"]
    ELSE [kind |-> "csr_matrix",
          val |-> [shape |-> shape,
                   entries |-> SumDuplicates(users, items, ratings, Len(users))]]

\* variant of to_csr_matrix: no soft failure, an empty Interaction gets the
\* matrix of its shape (0, 0)
to_csr_matrix_NoGuard(self) ==
    LET users == [k \in DOMAIN self._data |-> self._data[k][_USER]]
        items == [k \in DOMAIN self._data |-> self._data[k][_ITEM]]
        ratings == [k \in DOMAIN users |-> 1]
        csr_mat == csr_matrix(ratings, users, items,
                              <<self.num_users, self.num_items>>)
    IN  [self |-> self, kind |-> csr_mat.kind, val |-> csr_mat.val, warn |-> {}]

\* variant of to_csr_matrix: the matrix is kept in the cache of the object,
\* as to_user_dict keeps its result
to_csr_matrix_Cached(self) ==
    IF IsEmpty(self._data)
    THEN [self |-> self, kind |-> "None", val |-> <<>>, warn |-> {EmptyWarning}]
    ELSE LET users == [k \in DOMAIN self._data |-> self._data[k][_USER]]
             items == [k \in DOMAIN self._data |-> self._data[k][_ITEM]]
             ratings == [k \in DOMAIN users |-> 1]
             csr_mat == csr_matrix(ratings, users, items,
                                   <<self.num_users, self.num_items>>)
         IN  [self |-> [self EXCEPT !._buffer = @ @@ ("csr_mat" :> csr_mat.val)],
              kind |-> csr_mat.kind, val |-> csr_mat.val, warn |-> {}]

\* Interaction.to_csr_matrix
to_csr_matrix(self) ==
    IF IsEmpty(self._data)
    THEN [self |-> self, kind |-> "None", val |-> <<>>, warn |-> {EmptyWarning}]
    ELSE LET users == [k \in DOMAIN self._data |-> self._data[k][_USER]]
             items == [k \in DOMAIN self._data |-> self._data[k][_ITEM]]
             ratings == [k \in DOMAIN users |-> 1]
             csr_mat == csr_matrix(ratings, users, items,
                                   <<self.num_users, self.num_items>>)
         IN  [self |-> self, kind |-> csr_mat.kind, val |-> csr_mat.val, warn |-> {}]

\* the rows of a frame without the repetitions of an earlier row
RECURSIVE drop_duplicates(_)
drop_duplicates(data) ==
    IF data = <<>> THEN <<>>
    ELSE LET front == drop_duplicates(SubSeq(data, 1, Len(data) - 1))
             last == data[Len(data)]
         IN  IF \E k \in DOMAIN front : front[k] = last THEN front
             ELSE Append(front, last)

\* variant of to_user_item_pairs: one row per distinct pair
to_user_item_pairs_Unique(self) ==
    IF IsEmpty(self._data)
    THEN [self |-> self, kind |-> "None", val |-> <<>>, warn |-> {EmptyWarning}]
    ELSE [self |-> self, kind |-> "ndarray",
          val |-> [k \in DOMAIN drop_duplicates(self._data) |->
                      <<ToInt32(drop_duplicates(self._data)[k][_USER]),
                        ToInt32(drop_duplicates(self._data)[k][_ITEM])>>],
          warn |-> {}]

\* Interaction.to_user_item_pairs
to_user_item_pairs(self) ==
    IF IsEmpty(self._data)
    THEN [self |-> self, kind |-> "None", val |-> <<>>, warn |-> {EmptyWarning}]
    ELSE [self |-> self, kind |-> "ndarray",
          val |-> [k \in DOMAIN self._data |->
                      <<ToInt32(self._data[k][_USER]), ToInt32(self._data[k][_ITEM])>>],
          warn |-> {}]

\* Interaction.__len__
len(self) == [self |-> self, kind |-> "int", val |-> Len(self._data), warn |-> {}]

(* ----------------------------- class Dataset --------------------------- *)
\* pd.concat of a list of frames: the rows of the frames, one after another
RECURSIVE concat(_)
concat(data_list) ==
    IF data_list = <<>> THEN <<>>
    ELSE Head(data_list) \o concat(Tail(data_list))

\* the element of a sparse matrix at (u, i): 0 where nothing is stored
Element(mat, u, i) ==
    IF <<u, i>> \in DOMAIN mat.entries THEN mat.entries[<<u, i>>] ELSE 0

\* variant of ColSum: the sum runs along the other axis
RECURSIVE ColSum_OtherAxis(_, _, _)
ColSum_OtherAxis(mat, i, n) ==
    IF n = 0 THEN 0 ELSE ColSum_OtherAxis(mat, i, n - 1) + Element(mat, i, n - 1)

\* csr_matrix.sum(0) at column i: the sum over the rows 0..n-1
RECURSIVE ColSum(_, _, _)
ColSum(mat, i, n) ==
    IF n = 0 THEN 0 ELSE ColSum(mat, i, n - 1) + Element(mat, n - 1, i)

\* np.squeeze of a 1 x n array: a vector, or a 0-dimensional scalar if n = 1
squeeze(row) ==
    IF Cardinality(DOMAIN row) = 1
    THEN [ndim |-> 0, val |-> row[CHOOSE i \in DOMAIN row : TRUE]]
    ELSE [ndim |-> 1, val |-> row]

\* Dataset._count_item_frequency
_count_item_frequency(train_csr_mat) ==
    LET colsum == [i \in 0..(train_csr_mat.shape[2] - 1) |->
                      ColSum(train_csr_mat, i, train_csr_mat.shape[1])]
    IN  squeeze(colsum)

\* the fields of a Dataset before the files are loaded (lines 73-83)
NoDataset ==
    [num_users |-> 0, num_items |-> 0, num_ratings |-> 0, num_train_ratings |-> 0,
     train_csr_mat |-> <<>>, item_degrees |-> <<>>]

NoInteraction == Interaction({}, {}, {})

\* the warning of an absent validation file
ValidWarning == "valid_file does not exist."

\* the outcome of a constructor that raised
Raised(e, w) ==
    [exc |-> e, warn |-> w, ds |-> NoDataset,
     train_data |-> NoInteraction, valid_data |-> NoInteraction,
     test_data |-> NoInteraction]

\* the frame of the validation split and the warning of its absence
ValidData(fs) ==
    IF isfile(fs.valid) THEN [data |-> read_csv(fs.valid), warn |-> {}]
    ELSE [data |-> EmptyFrame, warn |-> {ValidWarning}]

\* variant of AllData: the totals are taken from the train split alone
AllData_TrainOnly(_train_data, _valid_data, _test_data) == _train_data

\* the combined view of the non-empty frames
AllData(_train_data, _valid_data, _test_data) ==
    concat(SelectSeq(<<_train_data, _valid_data, _test_data>>,
                     LAMBDA data : ~IsEmpty(data)))

\* Dataset.__init__ from the unification step on (lines 126-139)
Unify(_train_data, _valid_data, _test_data, w) ==
    LET all_data == AllData(_train_data, _valid_data, _test_data)
        num_users == Max(Column(all_data, _USER)) + 1
        num_items == Max(Column(all_data, _ITEM)) + 1
        train_data == Interaction({_train_data}, {num_users}, {num_items})
        valid_data == Interaction({_valid_data}, {num_users}, {num_items})
        test_data == Interaction({_test_data}, {num_users}, {num_items})
        csr == to_csr_matrix(train_data)
    IN  IF IsEmpty(all_data) THEN Raised("ValueError", w)
        ELSE IF csr.kind = "raise" THEN Raised(csr.val, w)
        ELSE IF csr.kind = "None" THEN Raised("AttributeError", w \cup csr.warn)
        ELSE [exc |-> "", warn |-> w \cup csr.warn,
              ds |-> [num_users |-> num_users, num_items |-> num_items,
                      num_ratings |-> Len(all_data),
                      num_train_ratings |-> Len(_train_data),
                      train_csr_mat |-> csr.val,
                      item_degrees |-> _count_item_frequency(csr.val)],
              train_data |-> train_data, valid_data |-> valid_data,
              test_data |-> test_data]

\* variant of Dataset: the validation file is as mandatory as the others
Dataset_ValidMandatory(fs, columns) ==
    IF columns \notin _column_dict THEN Raised("ValueError", {})
    ELSE IF ~isfile(fs.train) THEN Raised("FileNotFoundError", {})
    ELSE IF ~isfile(fs.valid) THEN Raised("FileNotFoundError", {})
    ELSE IF ~isfile(fs.test) THEN Raised("FileNotFoundError", {})
    ELSE Unify(read_csv(fs.train), read_csv(fs.valid), read_csv(fs.test), {})

\* Dataset.__init__(data_dir, dataset_name, sep, columns) on the files fs
Dataset(fs, columns) ==
    IF columns \notin _column_dict THEN Raised("ValueError", {})
    ELSE IF ~isfile(fs.train) THEN Raised("FileNotFoundError", {})
    ELSE IF ~isfile(fs.test) THEN Raised("FileNotFoundError", ValidData(fs).warn)
    ELSE Unify(read_csv(fs.train), ValidData(fs).data, read_csv(fs.test),
               ValidData(fs).warn)

(* ------------------------------- state --------------------------------- *)
NoFile == [exists |-> FALSE, rows |-> <<>>]
FileWith(rows) == [exists |-> TRUE, rows |-> rows]
FileStates(n) == {NoFile} \cup {FileWith(r) : r \in NonEmptySeqs(Rows, n)}
NoFiles == [train |-> NoFile, valid |-> NoFile, test |-> NoFile]

NoCall == [op |-> "", target |-> "", kind |-> "", val |-> <<>>]
NoArgs == [columns |-> "", data |-> {}, num_users |-> {}, num_items |-> {}]

\* nothing is constructed yet
Fresh ==
    /\ pc = "start"
    /\ args = NoArgs
    /\ exc = ""
    /\ warned = {}
    /\ ds = NoDataset
    /\ objs = [s \in Names |-> NoInteraction]
    /\ ret = NoCall

\* the directory of a dataset: each split file is absent or holds rows, the
\* three files hold at most MaxRows rows together
InitDataset ==
    /\ \E train \in FileStates(MaxRows) :
       \E valid \in FileStates(MaxRows - Len(train.rows)) :
       \E test \in FileStates(MaxRows - Len(train.rows) - Len(valid.rows)) :
          files = [train |-> train, valid |-> valid, test |-> test]
    /\ Fresh

\* a caller that wraps frames of its own reads no file
InitInteraction ==
    /\ files = NoFiles
    /\ Fresh

\* a caller constructs a Dataset over the files
DatasetInit(columns) ==
    /\ pc = "start"
    /\ LET r == Dataset(files, columns)
       IN  /\ pc' = IF r.exc = "" THEN "Dataset" ELSE "raised"
           /\ args' = [NoArgs EXCEPT !.columns = columns]
           /\ exc' = r.exc
           /\ warned' = r.warn
           /\ ds' = r.ds
           /\ objs' = [objs EXCEPT !["train"] = r.train_data,
                                   !["valid"] = r.valid_data,
                                   !["test"] = r.test_data]
    /\ UNCHANGED <<files, ret>>

\* the frames a caller can hand to a bare Interaction
DataArgs == {{}, {EmptyFrame}} \cup {{d} : d \in NonEmptySeqs(Rows, MaxDataLen)}
UserArgs == {{}} \cup {{n} : n \in 1..(MaxUser + 1)}
ItemArgs == {{}} \cup {{n} : n \in 1..(MaxItem + 1)}

\* a caller constructs an Interaction directly, from any frame and shape
InteractionInit ==
    /\ pc = "start"
    /\ \E data \in DataArgs, num_users \in UserArgs, num_items \in ItemArgs :
          /\ args' = [NoArgs EXCEPT !.data = data, !.num_users = num_users,
                                    !.num_items = num_items]
          /\ objs' = [objs EXCEPT !["bare"] = Interaction(data, num_users, num_items)]
    /\ pc' = "Interaction"
    /\ UNCHANGED <<files, exc, warned, ds, ret>>

\* the object s exists
Alive(s) == IF s = "bare" THEN pc = "Interaction" ELSE pc = "Dataset"

\* the effect of a view call on the object s
Call(s, op, r) ==
    /\ Alive(s)
    /\ objs' = [objs EXCEPT ![s] = r.self]
    /\ ret' = [op |-> op, target |-> s, kind |-> r.kind, val |-> r.val]
    /\ warned' = r.warn
    /\ UNCHANGED <<files, pc, args, exc, ds>>

ToUserDict(s) == Call(s, "to_user_dict", to_user_dict(objs[s]))
ToCsrMatrix(s) == Call(s, "to_csr_matrix", to_csr_matrix(objs[s]))
ToUserItemPairs(s) == Call(s, "to_user_item_pairs", to_user_item_pairs(objs[s]))
Length(s) == Call(s, "__len__", len(objs[s]))

NextDataset == \E columns \in ColumnsArgs : DatasetInit(columns)

NextInteraction ==
    \/ InteractionInit
    \/ \E s \in Names : ToUserDict(s)
    \/ \E s \in Names : ToCsrMatrix(s)
    \/ \E s \in Names : ToUserItemPairs(s)
    \/ \E s \in Names : Length(s)

SpecDataset == InitDataset /\ [][NextDataset]_vars

SpecInteraction == InitInteraction /\ [][NextInteraction]_vars

TypeOK == pc \in {"start", "Dataset", "Interaction", "raised"}

(* --------------------------- shared vocabulary ------------------------- *)
\* the object s holds at least one record
NonEmpty(s) == Alive(s) /\ Len(objs[s]._data) > 0

\* the number of positions of a sequence that hold x
Count(seq, x) == Cardinality({k \in DOMAIN seq : seq[k] = x})

\* the elements of a sequence
Range(seq) == {seq[k] : k \in DOMAIN seq}

\* two sequences hold the same multiset
SameBag(a, b) == \A x \in Range(a) \cup Range(b) : Count(a, x) = Count(b, x)

\* the ids of one column over the files that exist
FileIds(c) == UNION {Column(files[f].rows, c) : f \in Splits}

\* the last view call, made on the object s
Called(op, s) == ret.op = op /\ ret.target = s

\* every row of the object s lies inside its declared shape
InShape(s) ==
    \A k \in DOMAIN objs[s]._data :
        /\ objs[s]._data[k][_USER] < objs[s].num_users
        /\ objs[s]._data[k][_ITEM] < objs[s].num_items

C2_GlobalTotals ==
    pc = "Dataset" =>
        /\ ds.num_users - 1 \in FileIds(_USER)
        /\ ds.num_items - 1 \in FileIds(_ITEM)
        /\ \A f \in Splits : \A k \in DOMAIN files[f].rows :
              /\ files[f].rows[k][_USER] < ds.num_users
              /\ files[f].rows[k][_ITEM] < ds.num_items

\* a Dataset whose largest user id stands only in the test file and whose
\* largest item id stands only in the valid file
C2_Witness ==
    /\ pc = "Dataset"
    /\ isfile(files.valid)
    /\ ds.num_users - 1 \in Column(files.test.rows, _USER)
    /\ ds.num_users - 1 \notin Column(files.train.rows, _USER) \cup
                                Column(files.valid.rows, _USER)
    /\ ds.num_items - 1 \in Column(files.valid.rows, _ITEM)
    /\ ds.num_items - 1 \notin Column(files.train.rows, _ITEM) \cup
                                Column(files.test.rows, _ITEM)

C4_EmptySplit ==
    \A s \in Names :
        (Alive(s) /\ IsEmpty(objs[s]._data)) =>
            /\ objs[s] = [_data |-> EmptyFrame, num_users |-> 0, num_items |-> 0,
                          num_ratings |-> 0, _buffer |-> <<>>]
            /\ Called("__len__", s) => (ret.kind = "int" /\ ret.val = 0)
            /\ \A op \in {"to_user_dict", "to_csr_matrix", "to_user_item_pairs"} :
                  Called(op, s) => (ret.kind = "None" /\ warned = {EmptyWarning})

\* to_csr_matrix answered None, with the warning, on an Interaction that
\* was constructed from an empty frame and a supplied shape
C4_Witness ==
    /\ pc = "Interaction"
    /\ args.data = {EmptyFrame}
    /\ args.num_users # {}
    /\ Called("to_csr_matrix", "bare")
    /\ ret.kind = "None"
    /\ warned = {EmptyWarning}

\* C5: to_csr_matrix on a non-empty Interaction whose rows lie inside its
\* shape, as the rows of every split of a Dataset do, returns a matrix of
\* the shape (num_users, num_items) that stores exactly one entry per
\* distinct (user, item) row, valued with the number of occurrences of that
\* row, and nothing else.
C5_DuplicateAccumulation ==
    \A s \in Names :
        (NonEmpty(s) /\ Called("to_csr_matrix", s)) =>
            /\ InShape(s) => ret.kind = "csr_matrix"
            /\ ret.kind = "csr_matrix" =>
                  /\ ret.val.shape = <<objs[s].num_users, objs[s].num_items>>
                  /\ DOMAIN ret.val.entries = Range(objs[s]._data)
                  /\ \A c \in DOMAIN ret.val.entries :
                        /\ ret.val.entries[c] = Count(objs[s]._data, c)
                        /\ ret.val.entries[c] # 0
                        /\ c[1] < ret.val.shape[1]
                        /\ c[2] < ret.val.shape[2]

\* the matrix of an Interaction that holds one row twice and another once,
\* with a column beyond the largest item of its rows
C5_Witness ==
    /\ Called("to_csr_matrix", "bare")
    /\ ret.kind = "csr_matrix"
    /\ \E c, d \in DOMAIN ret.val.entries :
          ret.val.entries[c] = 2 /\ ret.val.entries[d] = 1
    /\ ret.val.shape[2] > Max(Column(objs["bare"]._data, _ITEM)) + 1

\* the items of the rows of user u, in row order
RECURSIVE ItemsOf(_, _)
ItemsOf(data, u) ==
    IF data = <<>> THEN <<>>
    ELSE (IF Head(data)[_USER] = u THEN <<Head(data)[_ITEM]>> ELSE <<>>)
         \o ItemsOf(Tail(data), u)

\* C6: to_user_dict on a non-empty split returns a mapping whose keys are
\* exactly the distinct user ids of the split, in ascending order, and whose
\* value for a user is the items of that user's rows, duplicates kept, in
\* row order.
C6_GroupByUser ==
    \A s \in Names :
        (NonEmpty(s) /\ Called("to_user_dict", s)) =>
            /\ ret.kind = "OrderedDict"
            /\ {ret.val[k][1] : k \in DOMAIN ret.val} = Column(objs[s]._data, _USER)
            /\ \A j, k \in DOMAIN ret.val : j < k => ret.val[j][1] < ret.val[k][1]
            /\ \A k \in DOMAIN ret.val :
                  ret.val[k][2] = ItemsOf(objs[s]._data, ret.val[k][1])

\* the grouped view of an Interaction whose first row belongs to a larger
\* user id than its second row, one user holding the same item twice
C6_Witness ==
    /\ Called("to_user_dict", "bare")
    /\ ret.kind = "OrderedDict"
    /\ Len(ret.val) = 2
    /\ objs["bare"]._data[1][_USER] > objs["bare"]._data[2][_USER]
    /\ \E k \in DOMAIN ret.val :
          Len(ret.val[k][2]) = 2 /\ ret.val[k][2][1] = ret.val[k][2][2]

\* the supplied num_users and num_items of the direct construction exceed
\* every id of the rows
SuppliedAbove ==
    /\ \A n \in args.num_users : \A u \in Column(objs["bare"]._data, _USER) : u < n
    /\ \A n \in args.num_items : \A i \in Column(objs["bare"]._data, _ITEM) : i < n

\* C7 as stated: every non-empty Interaction constructed with num_users and
\* num_items supplied has every row inside the shape, for any supplied values.
C7_InShape_AnySupplied ==
    (NonEmpty("bare") /\ args.num_users # {} /\ args.num_items # {})
        => InShape("bare")

\* C7 amended: a non-empty Interaction constructed with num_users and
\* num_items supplied has every row inside the shape exactly when the
\* supplied num_users exceeds every user id and the supplied num_items
\* every item id (as the totals a Dataset supplies do, C2); the constructor
\* stores the supplied values without validating them.
C7_InShape ==
    (NonEmpty("bare") /\ args.num_users # {} /\ args.num_items # {})
        => /\ InShape("bare") <=> SuppliedAbove
           /\ objs["bare"].num_users \in args.num_users
           /\ objs["bare"].num_items \in args.num_items

\* an Interaction whose supplied shape exceeds its ids by more than the
\* inferred shape would
C7_Witness ==
    /\ NonEmpty("bare")
    /\ args.num_users # {}
    /\ args.num_items # {}
    /\ InShape("bare")
    /\ objs["bare"].num_users > Max(Column(objs["bare"]._data, _USER)) + 1

\* the number of train rows whose item is i
TrainRowsOf(i) == Cardinality({k \in DOMAIN files.train.rows : files.train.rows[k][_ITEM] = i})

\* the number of distinct users with a train row whose item is i
TrainUsersOf(i) == Cardinality({r[_USER] : r \in {x \in Range(files.train.rows) : x[_ITEM] = i}})

\* C8 as stated: item_degrees is a vector whose entry i is the sum of
\* column i of the train matrix and the number of users who interacted
\* with item i in the train split.
C8_ItemDegrees_UserCount ==
    pc = "Dataset" =>
        /\ ds.item_degrees.ndim = 1
        /\ \A i \in 0..(ds.num_items - 1) :
              /\ ds.item_degrees.val[i] = ColSum(ds.train_csr_mat, i, ds.num_users)
              /\ ds.item_degrees.val[i] = TrainUsersOf(i)

\* C8 amended: item_degrees holds for every item i the sum of column i of
\* the train matrix, which is the number of train rows with item i (a
\* repeated (user, item) row counts every time); rows of the valid and test
\* files do not contribute; with num_items = 1 the vector is squeezed to a
\* 0-dimensional scalar holding that one sum.
C8_ItemDegrees ==
    pc = "Dataset" =>
        IF ds.num_items = 1
        THEN /\ ds.item_degrees.ndim = 0
             /\ ds.item_degrees.val = TrainRowsOf(0)
        ELSE /\ ds.item_degrees.ndim = 1
             /\ DOMAIN ds.item_degrees.val = 0..(ds.num_items - 1)
             /\ \A i \in 0..(ds.num_items - 1) :
                   ds.item_degrees.val[i] = TrainRowsOf(i)

\* a Dataset with a repeated train row, an item the train split lacks and
\* the test split holds, and different degrees for two items
C8_Witness ==
    /\ pc = "Dataset"
    /\ ds.item_degrees.ndim = 1
    /\ \E i \in 0..(ds.num_items - 1) : TrainRowsOf(i) > TrainUsersOf(i)
    /\ \E i \in 0..(ds.num_items - 1) :
          /\ ds.item_degrees.val[i] = 0
          /\ i \in Column(files.test.rows, _ITEM)

\* the <<user, item>> pairs of a grouped view, group after group
RECURSIVE Flatten(_)
Flatten(user_dict) ==
    IF user_dict = <<>> THEN <<>>
    ELSE [j \in DOMAIN Head(user_dict)[2] |-> <<Head(user_dict)[1], Head(user_dict)[2][j]>>]
         \o Flatten(Tail(user_dict))

\* the grouped view that to_user_dict left in the cache of the object s
Cached(s) == objs[s]._buffer["user_dict"]

\* C9: on a non-empty split the pairs flattened from the grouped view and
\* the rows of to_user_item_pairs are the same multiset, the multiset of
\* the rows of the split.
C9_RoundTrip ==
    \A s \in Names :
        NonEmpty(s) =>
            /\ Called("to_user_dict", s) =>
                  SameBag(Flatten(ret.val), objs[s]._data)
            /\ Called("to_user_item_pairs", s) =>
                  /\ ret.kind = "ndarray"
                  /\ Len(ret.val) = Len(objs[s]._data)
                  /\ SameBag(ret.val, objs[s]._data)
                  /\ "user_dict" \in DOMAIN objs[s]._buffer =>
                        /\ SameBag(Flatten(Cached(s)), ret.val)
                        /\ Len(Flatten(Cached(s))) = Len(ret.val)

\* to_user_item_pairs answered on an Interaction that was grouped before,
\* holds a repeated row and whose rows are not in grouped order
C9_Witness ==
    /\ Called("to_user_item_pairs", "bare")
    /\ "user_dict" \in DOMAIN objs["bare"]._buffer
    /\ Len(Cached("bare")) = 2
    /\ Flatten(Cached("bare")) # ret.val
    /\ \E x \in Range(ret.val) : Count(ret.val, x) = 2

\* C10: a view call changes no record sequence, num_users, num_items or
\* num_ratings of any Interaction; the cache of an object changes only by a
\* to_user_dict call on that object, which is then non-empty.
C10_Immutable ==
    [][pc' = pc =>
         \A s \in Names :
            /\ objs'[s]._data = objs[s]._data
            /\ objs'[s].num_users = objs[s].num_users
            /\ objs'[s].num_items = objs[s].num_items
            /\ objs'[s].num_ratings = objs[s].num_ratings
            /\ objs'[s]._buffer # objs[s]._buffer =>
                  /\ ret'.op = "to_user_dict"
                  /\ ret'.target = s
                  /\ Len(objs[s]._data) > 0]_vars

\* the cache of an Interaction is written and a later call of another
\* view has returned
C10_Witness ==
    /\ pc = "Interaction"
    /\ "user_dict" \in DOMAIN objs["bare"]._buffer
    /\ Called("to_csr_matrix", "bare")
    /\ ret.kind = "csr_matrix"

====
